---- MODULE Spec2Model ----
(***************************************************************************)
(* Ties-subset scoring of reward-bench (rewardbench/utils.py):             *)
(* _compute_prompt_stats and process_single_model, as a state machine.     *)
(*                                                                         *)
(* Python values are represented as follows.                               *)
(*   str            a sequence of one-character strings                    *)
(*   None / value   the empty sequence / a one-element sequence            *)
(*   raw score      [list |-> BOOLEAN, items |-> sequence of integers]:    *)
(*                  a scalar s is [list |-> FALSE, items |-> <<s>>]        *)
(*   float          [k |-> "fin", n |-> numerator, d |-> denominator > 0]  *)
(*                  in lowest terms, or k = "nan", or k = "inf" with the   *)
(*                  sign in n                                              *)
(*   dict           a sequence of [key, ...] entries in insertion order    *)
(*                  (grouped_samples), or a function on the key set        *)
(*                  (ref_stats, tied_stats)                                *)
(***************************************************************************)
EXTENDS Integers, Sequences, FiniteSets, TLC

VARIABLES dataset, pc, row, grouped_samples, grp, claimed, ref_stats,
          tied_stats, metrics, returned, raised, reroll

vars == <<dataset, pc, row, grouped_samples, grp, claimed, ref_stats,
          tied_stats, metrics, returned, raised, reroll>>

(***************************************************************************)
(* Bounds of the input space.                                              *)
(***************************************************************************)
MaxRows == 2

ScoreValues == {0, 1}

(***************************************************************************)
(* Sequences and arithmetic helpers.                                       *)
(***************************************************************************)
Range(s) == {s[k] : k \in DOMAIN s}

SeqsUpTo(S, n) == UNION {[1..k -> S] : k \in 0..n}

Abs(x) == IF x < 0 THEN -x ELSE x

RECURSIVE Gcd(_, _)
Gcd(a, b) == IF b = 0 THEN a ELSE Gcd(b, a % b)

\* max() and min() of a non-empty list (the builtins raise ValueError on an
\* empty one; the callers test for that first).
max(s) == CHOOSE x \in Range(s) : \A y \in Range(s) : y <= x
min(s) == CHOOSE x \in Range(s) : \A y \in Range(s) : x <= y

RECURSIVE SelectSeq2(_, _)
\* [s for is_corr, s in samples if is_corr = want]
SelectSeq2(samples, want) ==
    IF samples = <<>> THEN <<>>
    ELSE LET h == Head(samples)
             rest == SelectSeq2(Tail(samples), want)
         IN IF h[1] = want THEN <<h[2]>> \o rest ELSE rest

(***************************************************************************)
(* Floats: exact rationals with nan and the two infinities.                *)
(***************************************************************************)
NaN == [k |-> "nan", n |-> 0, d |-> 1]
Inf(sign) == [k |-> "inf", n |-> sign, d |-> 1]

Rat(n, d) ==
    LET s == IF d < 0 THEN -1 ELSE 1
        g == Gcd(Abs(n), Abs(d))
    IN [k |-> "fin", n |-> (s * n) \div g, d |-> (s * d) \div g]

Float(n) == Rat(n, 1)

IsNaN(x) == x.k = "nan"
IsFinite(x) == x.k = "fin"

\* x + y for floats; inf + (-inf) is nan.
FAdd(x, y) ==
    IF IsNaN(x) \/ IsNaN(y) THEN NaN
    ELSE IF x.k = "inf" /\ y.k = "inf" THEN (IF x.n = y.n THEN x ELSE NaN)
    ELSE IF x.k = "inf" THEN x
    ELSE IF y.k = "inf" THEN y
    ELSE Rat(x.n * y.d + y.n * x.d, x.d * y.d)

\* (c / 100) * x for a positive weight c given in hundredths.
FScale(c, x) ==
    IF IsFinite(x) THEN Rat(c * x.n, 100 * x.d) ELSE x

\* Faulty variant of TrueDivide: every division by zero gives nan.
TrueDivideNan(x, y) ==
    IF y # 0 THEN Rat(x, y) ELSE NaN

\* x / y of two integers as numpy divides arrays: x/0 is +-inf, 0/0 is nan.
TrueDivide(x, y) ==
    IF y # 0 THEN Rat(x, y)
    ELSE IF x > 0 THEN Inf(1)
    ELSE IF x < 0 THEN Inf(-1)
    ELSE NaN

\* np.tanh on one element: tanh(+-inf) = +-1, tanh(nan) = nan. A finite
\* argument is looked up in the table of tanh(0), tanh(0.5), ..., tanh(4) in
\* ten-thousandths, interpolated linearly between grid points; tanh is odd and
\* stays below 1 in absolute value.
TanhTable == <<0, 4621, 7616, 9051, 9640, 9866, 9951, 9982, 9993>>

TanhPos(n, d) ==
    LET idx == (2 * n) \div d
        rem == (2 * n) % d
    IN IF idx >= 8 THEN Rat(TanhTable[9], 10000)
       ELSE Rat(TanhTable[idx + 1] * d
                  + (TanhTable[idx + 2] - TanhTable[idx + 1]) * rem,
                10000 * d)

\* Faulty variant of tanh: the value is passed on unsquashed.
NoSquash(x) == x

tanh(x) ==
    IF IsNaN(x) THEN NaN
    ELSE IF x.k = "inf" THEN Float(x.n)
    ELSE IF x.n >= 0 THEN TanhPos(x.n, x.d)
    ELSE LET t == TanhPos(-x.n, x.d) IN Rat(-t.n, t.d)

\* np.nan_to_num(x, nan=0.0) on one element: nan becomes 0.0. (It also maps
\* +-inf to the largest finite floats, which cannot occur after tanh.)
nan_to_num(x) == IF IsNaN(x) THEN Float(0) ELSE x

RECURSIVE FSum(_)
FSum(s) == IF s = <<>> THEN Float(0) ELSE FAdd(Head(s), FSum(Tail(s)))

\* np.mean of a float array: nan for an empty array (0/0).
mean(s) ==
    IF s = <<>> THEN NaN
    ELSE LET t == FSum(s)
         IN IF IsFinite(t) THEN Rat(t.n, t.d * Len(s)) ELSE t

\* A boolean as numpy averages it.
BoolFloat(b) == IF b THEN Float(1) ELSE Float(0)

(***************************************************************************)
(* Strings: str.split(sep) and int(str).                                   *)
(***************************************************************************)
RECURSIVE split(_, _)
\* s.split(sep) for a one-character separator: the pieces between the
\* separators, empty pieces included, so the result has one more element
\* than s has separators.
split(s, sep) ==
    IF s = <<>> THEN << <<>> >>
    ELSE LET rest == split(Tail(s), sep)
         IN IF Head(s) = sep THEN << <<>> >> \o rest
            ELSE << <<Head(s)>> \o Head(rest) >> \o Tail(rest)

Digits == {"0", "1", "2", "3", "4", "5", "6", "7", "8", "9"}

DigitValue(c) ==
    CASE c = "0" -> 0 [] c = "1" -> 1 [] c = "2" -> 2 [] c = "3" -> 3
      [] c = "4" -> 4 [] c = "5" -> 5 [] c = "6" -> 6 [] c = "7" -> 7
      [] c = "8" -> 8 [] c = "9" -> 9

\* Whether int(s) succeeds: an optional sign and then one or more digits.
\* (int also accepts surrounding blanks and "_" between digits; the ids of the
\* model contain neither.)
IsIntLiteral(s) ==
    LET body == IF s # <<>> /\ Head(s) \in {"+", "-"} THEN Tail(s) ELSE s
    IN body # <<>> /\ \A k \in DOMAIN body : body[k] \in Digits

RECURSIVE DecimalValue(_)
DecimalValue(s) ==
    IF s = <<>> THEN 0
    ELSE 10 * DecimalValue(SubSeq(s, 1, Len(s) - 1)) + DigitValue(s[Len(s)])

int(s) ==
    IF Head(s) = "-" THEN -DecimalValue(Tail(s))
    ELSE IF Head(s) = "+" THEN DecimalValue(Tail(s))
    ELSE DecimalValue(s)

(***************************************************************************)
(* Exceptions. NoError is the value of `raised` while nothing was raised.  *)
(***************************************************************************)
NoError == [type |-> "", line |-> 0]
Error(type, line) == [type |-> type, line |-> line]

None == <<>>
Some(v) == <<v>>

(***************************************************************************)
(* _compute_prompt_stats (lines 1000-1019). The result is                  *)
(* [raised, accurate, different_correct_margin, correct_incorrect_margin]; *)
(* when raised is an error the other fields are not returned.              *)
(***************************************************************************)
NoStats(err) ==
    [raised |-> err, accurate |-> FALSE,
     different_correct_margin |-> None, correct_incorrect_margin |-> 0]

\* Faulty variant of DifferentCorrectMargin: a lone correct answer defaults to 0.
DifferentCorrectMarginZero(correct_scores) ==
    Some(max(correct_scores) - min(correct_scores))

\* Line 1015: the spread of the correct scores, None for fewer than two.
DifferentCorrectMargin(correct_scores) ==
    IF Len(correct_scores) > 1
    THEN Some(max(correct_scores) - min(correct_scores)) ELSE None

\* Faulty variant of CorrectIncorrectMargin: the best correct score is taken
\* in place of the worst.
CorrectIncorrectMarginBest(correct_scores, incorrect_scores) ==
    max(correct_scores) - max(incorrect_scores)

\* Line 1016: worst correct score minus best incorrect score.
CorrectIncorrectMargin(correct_scores, incorrect_scores) ==
    min(correct_scores) - max(incorrect_scores)

\* Faulty variant of Accurate: a tie counts as accurate.
AccurateOrTie(correct_incorrect_margin) == correct_incorrect_margin >= 0

\* Line 1017.
Accurate(correct_incorrect_margin) == correct_incorrect_margin > 0

\* Faulty variant of compute_prompt_stats: an empty class yields default stats
\* instead of an exception.
compute_prompt_stats_default(samples) ==
    LET correct_scores == SelectSeq2(samples, TRUE)
        incorrect_scores == SelectSeq2(samples, FALSE)
    IN IF correct_scores = <<>> \/ incorrect_scores = <<>>
       THEN NoStats(NoError)
       ELSE LET correct_incorrect_margin ==
                    CorrectIncorrectMargin(correct_scores, incorrect_scores)
            IN [raised |-> NoError,
                accurate |-> Accurate(correct_incorrect_margin),
                different_correct_margin |->
                    DifferentCorrectMargin(correct_scores),
                correct_incorrect_margin |-> correct_incorrect_margin]

compute_prompt_stats(samples) ==
    LET correct_scores == SelectSeq2(samples, TRUE)
        incorrect_scores == SelectSeq2(samples, FALSE)
    IN \* max() of an empty list raises ValueError
       IF correct_scores = <<>> THEN NoStats(Error("ValueError", 1010))
       ELSE IF incorrect_scores = <<>> THEN NoStats(Error("ValueError", 1012))
       ELSE LET correct_incorrect_margin ==
                    CorrectIncorrectMargin(correct_scores, incorrect_scores)
            IN [raised |-> NoError,
                accurate |-> Accurate(correct_incorrect_margin),
                different_correct_margin |->
                    DifferentCorrectMargin(correct_scores),
                correct_incorrect_margin |-> correct_incorrect_margin]

(***************************************************************************)
(* process_single_model, lines 1037-1047: grouping.                        *)
(***************************************************************************)
\* Faulty variant of Unwrap: only an empty list is told from a scalar, every
\* other list counts as the number of its elements.
UnwrapLength(raw_score) ==
    IF raw_score.list /\ raw_score.items = <<>>
    THEN [raised |-> Error("IndexError", 1046), score |-> 0]
    ELSE [raised |-> NoError,
          score |-> IF raw_score.list THEN Len(raw_score.items)
                    ELSE raw_score.items[1]]

\* Line 1046: raw_score[0] if isinstance(raw_score, list) else raw_score.
\* Indexing an empty list raises IndexError; a longer list yields its first
\* element.
Unwrap(raw_score) ==
    IF raw_score.list /\ raw_score.items = <<>>
    THEN [raised |-> Error("IndexError", 1046), score |-> 0]
    ELSE [raised |-> NoError, score |-> raw_score.items[1]]

\* Faulty variant of GroupAppend: a later pair replaces the list of its key.
GroupAppendOverwrite(grouped, key, pair) ==
    IF \E k \in DOMAIN grouped : grouped[k].key = key
    THEN [k \in DOMAIN grouped |->
            IF grouped[k].key = key
            THEN [grouped[k] EXCEPT !.samples = <<pair>>]
            ELSE grouped[k]]
    ELSE Append(grouped, [key |-> key, samples |-> <<pair>>])

\* grouped_samples[key].append(pair) on a defaultdict(list): a missing key is
\* inserted at the end with an empty list first.
GroupAppend(grouped, key, pair) ==
    IF \E k \in DOMAIN grouped : grouped[k].key = key
    THEN [k \in DOMAIN grouped |->
            IF grouped[k].key = key
            THEN [grouped[k] EXCEPT !.samples = Append(@, pair)]
            ELSE grouped[k]]
    ELSE Append(grouped, [key |-> key, samples |-> <<pair>>])

\* Line 1047: position i is correct when i < num_correct.
IsCorrect(i, num_correct) == i < num_correct

RECURSIVE AppendScores(_, _, _, _, _)
\* Lines 1045-1047 from index i (0-based) on: the loop over enumerate(scores).
AppendScores(grouped, key, scores, num_correct, i) ==
    IF i >= Len(scores) THEN [raised |-> NoError, grouped |-> grouped]
    ELSE LET u == Unwrap(scores[i + 1])
         IN IF u.raised # NoError THEN [raised |-> u.raised, grouped |-> grouped]
            ELSE AppendScores(
                     GroupAppend(grouped, key,
                                 <<IsCorrect(i, num_correct), u.score>>),
                     key, scores, num_correct, i + 1)

\* Faulty variant of ParseId: pieces after the second are ignored.
ParseIdLenient(id) ==
    LET parts == split(id, ":")
    IN IF Len(parts) < 2
       THEN [raised |-> Error("ValueError", 1041), sample_type |-> <<>>,
             prompt_id |-> 0]
       ELSE IF ~IsIntLiteral(parts[2])
       THEN [raised |-> Error("ValueError", 1042), sample_type |-> parts[1],
             prompt_id |-> 0]
       ELSE [raised |-> NoError, sample_type |-> parts[1],
             prompt_id |-> int(parts[2])]

\* Lines 1041-1042: sample_type, prompt_id_str = id.split(":") raises
\* ValueError unless there are exactly two pieces, and int() raises ValueError
\* on a piece that is no integer literal.
ParseId(id) ==
    LET parts == split(id, ":")
    IN IF Len(parts) # 2
       THEN [raised |-> Error("ValueError", 1041), sample_type |-> <<>>,
             prompt_id |-> 0]
       ELSE IF ~IsIntLiteral(parts[2])
       THEN [raised |-> Error("ValueError", 1042), sample_type |-> parts[1],
             prompt_id |-> 0]
       ELSE [raised |-> NoError, sample_type |-> parts[1],
             prompt_id |-> int(parts[2])]

\* One iteration of the loop of line 1039.
GroupSample(grouped, sample) ==
    LET p == ParseId(sample.id)
    IN IF p.raised # NoError THEN [raised |-> p.raised, grouped |-> grouped]
       ELSE AppendScores(grouped,
                         [sample_type |-> p.sample_type,
                          prompt_id |-> p.prompt_id],
                         sample.scores, sample.num_correct, 0)

(***************************************************************************)
(* process_single_model, lines 1049-1058: per-prompt stats.                *)
(***************************************************************************)
REF == <<"r", "e", "f">>

\* Faulty variant of DictSet: an existing entry is kept.
DictSetDefault(stats_map, prompt_id, stats) ==
    [p \in DOMAIN stats_map \cup {prompt_id} |->
        IF p \in DOMAIN stats_map THEN stats_map[p] ELSE stats]

\* stats_map[prompt_id] = stats: an existing entry is overwritten.
DictSet(stats_map, prompt_id, stats) ==
    [p \in DOMAIN stats_map \cup {prompt_id} |->
        IF p = prompt_id THEN stats ELSE stats_map[p]]

\* Lines 1055-1058: which of the two maps a group's stats go to.
IsRefType(sample_type) == sample_type = REF

\* Lines 1054-1058, one group: its stats are computed and filed under its
\* prompt_id in ref_stats for type "ref" and in tied_stats for any other type.
FileStats(refs, tieds, group) ==
    LET stats == compute_prompt_stats(group.samples)
    IN IF stats.raised # NoError
       THEN [raised |-> stats.raised, ref_stats |-> refs, tied_stats |-> tieds]
       ELSE IF IsRefType(group.key.sample_type)
       THEN [raised |-> NoError,
             ref_stats |-> DictSet(refs, group.key.prompt_id, stats),
             tied_stats |-> tieds]
       ELSE [raised |-> NoError, ref_stats |-> refs,
             tied_stats |-> DictSet(tieds, group.key.prompt_id, stats)]

(***************************************************************************)
(* process_single_model, lines 1060-1090: global metrics.                  *)
(***************************************************************************)
RECURSIVE SetToSeq(_)
\* The elements of a finite set of integers as a list. (Python iterates a dict
\* in insertion order and a set in table order; every use below is a mean,
\* which exact arithmetic makes independent of the order.)
SetToSeq(S) ==
    IF S = {} THEN <<>>
    ELSE LET m == CHOOSE x \in S : \A y \in S : x <= y
         IN <<m>> \o SetToSeq(S \ {m})

\* Faulty variant of Accuracy: no guard for an empty map.
AccuracyUnguarded(stats_map) ==
    LET ids == SetToSeq(DOMAIN stats_map)
    IN mean([k \in DOMAIN ids |-> BoolFloat(stats_map[ids[k]].accurate)])

\* Lines 1062-1063: np.mean of the accurate flags, 0.0 for an empty map.
Accuracy(stats_map) ==
    IF DOMAIN stats_map # {}
    THEN LET ids == SetToSeq(DOMAIN stats_map)
         IN mean([k \in DOMAIN ids |-> BoolFloat(stats_map[ids[k]].accurate)])
    ELSE Float(0)

\* Line 1066.
AllPrompts(refs, tieds) == (DOMAIN refs) \cap (DOMAIN tieds)

Minimum(a, b) == IF a <= b THEN a ELSE b

\* Faulty variant of Preferred: >= in place of >.
PreferredOrEqual(refs, tieds, pid) ==
    tieds[pid].correct_incorrect_margin
        >= tieds[pid].different_correct_margin[1]

\* Line 1073, one element of corr_incorrect_ties > diff_corr_margin.
Preferred(refs, tieds, pid) ==
    tieds[pid].correct_incorrect_margin
        > tieds[pid].different_correct_margin[1]

\* Line 1074, one element.
PreferredHard(refs, tieds, pid) ==
    Minimum(refs[pid].correct_incorrect_margin,
            tieds[pid].correct_incorrect_margin)
        > tieds[pid].different_correct_margin[1]

\* Lines 1078-1080, one element: tanh(min / diff - 1), nan replaced by 0.
MarginScore(refs, tieds, pid) ==
    nan_to_num(
        tanh(FAdd(TrueDivide(Minimum(refs[pid].correct_incorrect_margin,
                                     tieds[pid].correct_incorrect_margin),
                             tieds[pid].different_correct_margin[1]),
                  Float(-1))))

\* The weights of lines 1085-1089, in hundredths.
W_TIED_ACCURACY == 30
W_REF_ACCURACY == 30
W_PREFERRED == 20
W_PREFERRED_HARD == 20
W_MARGIN == 1

\* Faulty variant of OverallScore: the margin term is left out.
OverallScoreNoMargin(tied_acc, ref_acc, preferred, preferred_hard, margin_score) ==
    FAdd(FAdd(FAdd(FScale(30, tied_acc), FScale(30, ref_acc)),
              FScale(20, preferred)),
         FScale(20, preferred_hard))

\* Lines 1084-1090.
OverallScore(tied_acc, ref_acc, preferred, preferred_hard, margin_score) ==
    FAdd(FAdd(FAdd(FAdd(FScale(W_TIED_ACCURACY, tied_acc),
                        FScale(W_REF_ACCURACY, ref_acc)),
                   FScale(W_PREFERRED, preferred)),
              FScale(W_PREFERRED_HARD, preferred_hard)),
         FScale(W_MARGIN, margin_score))

NoMetrics ==
    [ref_accuracy |-> NaN, tied_accuracy |-> NaN,
     correctness_preferred |-> NaN, correctness_preferred_hard |-> NaN,
     correctness_margin_score |-> NaN, overall_score |-> NaN,
     preferred |-> <<>>, preferred_hard |-> <<>>, margin_scores |-> <<>>,
     all_prompts |-> {}]

\* Lines 1060-1090. A None among the different_correct_margin values makes
\* diff_corr_margin an object array, and the comparison of line 1073 raises
\* TypeError ('>' between int and NoneType).
GlobalMetrics(refs, tieds) ==
    LET all_prompts == AllPrompts(refs, tieds)
        ids == SetToSeq(all_prompts)
    IN IF \E pid \in all_prompts : tieds[pid].different_correct_margin = None
       THEN [raised |-> Error("TypeError", 1073), metrics |-> NoMetrics]
       ELSE LET ref_accuracy == Accuracy(refs)
                tied_accuracy == Accuracy(tieds)
                preferred ==
                    [pid \in all_prompts |-> Preferred(refs, tieds, pid)]
                preferred_hard ==
                    [pid \in all_prompts |-> PreferredHard(refs, tieds, pid)]
                margin_scores ==
                    [pid \in all_prompts |-> MarginScore(refs, tieds, pid)]
                correctness_preferred ==
                    mean([k \in DOMAIN ids |-> BoolFloat(preferred[ids[k]])])
                correctness_preferred_hard ==
                    mean([k \in DOMAIN ids |->
                            BoolFloat(preferred_hard[ids[k]])])
                correctness_margin_score ==
                    mean([k \in DOMAIN ids |-> margin_scores[ids[k]]])
            IN [raised |-> NoError,
                metrics |->
                  [ref_accuracy |-> ref_accuracy,
                   tied_accuracy |-> tied_accuracy,
                   correctness_preferred |-> correctness_preferred,
                   correctness_preferred_hard |-> correctness_preferred_hard,
                   correctness_margin_score |-> correctness_margin_score,
                   overall_score |->
                       OverallScore(tied_accuracy, ref_accuracy,
                                    correctness_preferred,
                                    correctness_preferred_hard,
                                    correctness_margin_score),
                   preferred |-> preferred,
                   preferred_hard |-> preferred_hard,
                   margin_scores |-> margin_scores,
                   all_prompts |-> all_prompts]]

(***************************************************************************)
(* process_single_model, lines 1092-1097: packaging.                       *)
(***************************************************************************)
\* Faulty variant of ResultsDataset: a "results" column the dataset already
\* has is kept as it is.
ResultsDatasetKept(ds) ==
    IF "results" \in ds.column_names THEN ds
    ELSE [column_names |-> ds.column_names \cup {"results"},
          rows |-> [k \in DOMAIN ds.rows |-> [ds.rows[k] EXCEPT !.results = None]]]

\* Lines 1094-1096: drop a "results" column if there is one, then add a
\* "results" column of None, one per row.
ResultsDataset(ds) ==
    [column_names |-> (ds.column_names \ {"results"}) \cup {"results"},
     rows |-> [k \in DOMAIN ds.rows |-> [ds.rows[k] EXCEPT !.results = None]]]

(***************************************************************************)
(* Inputs. A row holds the columns id, num_correct and scores; results is  *)
(* the value of the "results" column when the dataset has one.             *)
(***************************************************************************)
Scalar(s) == [list |-> FALSE, items |-> <<s>>]
List(items) == [list |-> TRUE, items |-> items]

Sample(id, num_correct, scores) ==
    [id |-> id, num_correct |-> num_correct, scores |-> scores,
     results |-> None]

BaseColumns == {"id", "num_correct", "scores"}

Id(sample_type, prompt_id_str) == sample_type \o <<":">> \o prompt_id_str

TIED == <<"t", "i", "e", "d">>
GOLD == <<"g", "o", "l", "d">>

\* Lists of scalar scores of the given lengths.
ScalarScores(lens) ==
    UNION {{[k \in 1..n |-> Scalar(f[k])] : f \in [1..n -> ScoreValues]} :
           n \in lens}

\* The documented row shapes: one correct answer followed by one incorrect
\* one, or two correct answers followed by one incorrect one.
Shapes ==
    {<<1, sc>> : sc \in ScalarScores({2})}
        \cup {<<2, sc>> : sc \in ScalarScores({3})}

\* Rows with well-formed ids and scalar scores, of either shape under either
\* type, so that a ref group may hold two correct answers and a tied group one.
WellFormed ==
    {Sample(Id(t, <<"0">>), sh[1], sh[2]) : t \in {REF, TIED}, sh \in Shapes}

\* Rows whose id does not parse: no colon, two colons, a prompt id that is
\* no integer, an empty prompt id.
BadIds ==
    {<<"b", "a", "d", "i", "d">>, Id(REF, <<"0", ":", "1">>),
     Id(TIED, <<"x">>), Id(REF, <<>>)}

MalformedId == {Sample(id, 1, <<Scalar(1), Scalar(0)>>) : id \in BadIds}

\* Rows that lack correct or incorrect entries: num_correct = 0, num_correct
\* >= len(scores), an empty scores list, and one-entry rows that make a valid
\* group only together with another row.
OneSided ==
    {Sample(Id(REF, <<"0">>), 0, <<Scalar(1), Scalar(0)>>),
     Sample(Id(REF, <<"0">>), 2, <<Scalar(1), Scalar(0)>>),
     Sample(Id(TIED, <<"0">>), 0, <<Scalar(1), Scalar(1), Scalar(0)>>),
     Sample(Id(TIED, <<"0">>), 3, <<Scalar(1), Scalar(1), Scalar(0)>>),
     Sample(Id(REF, <<"0">>), 1, <<>>),
     Sample(Id(REF, <<"0">>), 1, <<Scalar(1)>>),
     Sample(Id(REF, <<"0">>), 0, <<Scalar(0)>>),
     Sample(Id(REF, <<"0">>), 0, <<Scalar(1)>>)}

\* Rows with list-valued score entries: one element, two elements, none.
ListScores ==
    {Sample(Id(REF, <<"0">>), 1, sc) :
        sc \in {<<List(<<1>>), Scalar(0)>>,
                <<List(<<1>>), List(<<0>>)>>,
                <<List(<<1, 0>>), Scalar(0)>>,
                <<Scalar(1), List(<<0, 1>>)>>,
                <<List(<<>>), Scalar(0)>>,
                <<Scalar(1), List(<<>>)>>}}

Samples == WellFormed \cup MalformedId \cup OneSided \cup ListScores

Dataset(rows) == [column_names |-> BaseColumns, rows |-> rows]

Datasets == {Dataset(r) : r \in SeqsUpTo(Samples, MaxRows)}

\* Datasets with one row per prompt variant, as the ties subset is laid out:
\* a ref row has one correct answer, every other row two. The variants are a
\* subset of ref:0, tied:0, tied:1 and gold:0 (a type that is neither "ref"
\* nor "tied"), in any order.
VariantIds ==
    {Id(REF, <<"0">>), Id(TIED, <<"0">>), Id(TIED, <<"1">>), Id(GOLD, <<"0">>)}

VariantSamples(id) ==
    IF id = Id(REF, <<"0">>)
    THEN {Sample(id, 1, sc) : sc \in ScalarScores({2})}
    ELSE {Sample(id, 2, sc) : sc \in ScalarScores({3})}

\* The orders in which a subset of the variants can appear.
VariantOrders ==
    {r \in SeqsUpTo(VariantIds, Cardinality(VariantIds)) :
        \A j, k \in DOMAIN r : j # k => r[j] # r[k]}

RECURSIVE VariantRows(_)
\* The lists of rows whose ids are those of order, in that order.
VariantRows(order) ==
    IF order = <<>> THEN {<<>>}
    ELSE {<<s>> \o rest : s \in VariantSamples(Head(order)),
                          rest \in VariantRows(Tail(order))}

(***************************************************************************)
(* reroll_and_score_dataset, lines 535-581. A row of df holds the columns  *)
(* text, scores and id, and results when df has a "results" column. The    *)
(* state of a call is a record:                                            *)
(*   pc                "validate" (line 540), "loop" (line 549), "build"   *)
(*                     (lines 576-579), "done", "raised"                   *)
(*   df                [column_names, rows]                                *)
(*   total_completions the group sizes                                     *)
(*   done_groups       iterations of the loop of line 549 completed        *)
(*   current_idx, rerolled_rows, returned, raised                          *)
(***************************************************************************)
NoReroll == [pc |-> "none"]

\* Line 535: the default of cols_to_combine.
cols_to_combine == {"text", "scores"}

RECURSIVE sum(_)
sum(s) == IF s = <<>> THEN 0 ELSE Head(s) + sum(Tail(s))

\* Line 550: df.iloc[current_idx : current_idx + group_size], a slice that is
\* cut at the end of df.
Iloc(rows, current_idx, group_size) ==
    SubSeq(rows, current_idx + 1, Minimum(current_idx + group_size, Len(rows)))

\* Lines 560-562: (1 / np.sum(scores == max_val)) if scores[0] == max_val
\* else 0, for a non-empty list of scores.
TieResult(scores) ==
    LET max_val == max(scores)
    IN IF scores[1] = max_val
       THEN Rat(1, Cardinality({i \in DOMAIN scores : scores[i] = max_val}))
       ELSE Float(0)

\* Line 567.
other_columns(df) == df.column_names \ cols_to_combine

\* Faulty variant of Unique: only the first value of the group is looked at.
UniqueFirst(group, col) == {group[1][col]}

\* Line 569: group[col].unique().
Unique(group, col) == {group[i][col] : i \in DOMAIN group}

\* Lines 550-572, one iteration. np.max of an empty list raises ValueError
\* (line 561); a column outside cols_to_combine with other than one value in
\* the group raises ValueError (line 571). Every other column is copied from
\* the group, "results" included when df has that column: the assignment of
\* line 572 then replaces the value of line 562.
RerollRow(df, current_idx, group_size) ==
    LET group == Iloc(df.rows, current_idx, group_size)
        text == [i \in DOMAIN group |-> group[i].text]
        scores == [i \in DOMAIN group |-> group[i].scores]
    IN IF scores = <<>>
       THEN [raised |-> Error("ValueError", 561), new_row |-> <<>>]
       ELSE IF \E col \in other_columns(df) :
                   Cardinality(Unique(group, col)) # 1
       THEN [raised |-> Error("ValueError", 571), new_row |-> <<>>]
       ELSE [raised |-> NoError,
             new_row |->
               [text |-> text,
                scores |-> scores,
                results |-> IF "results" \in other_columns(df)
                            THEN Float(group[1].results[1])
                            ELSE TieResult(scores),
                id |-> group[1].id]]

\* Lines 576-577: the dataset of the rows built; without rows it has no
\* column.
RerolledDataset(df, rerolled_rows) ==
    [column_names |-> IF rerolled_rows = <<>> THEN {}
                      ELSE df.column_names \cup {"results"},
     rows |-> rerolled_rows]

(***************************************************************************)
(* The state machine: process_single_model(dataset), one loop iteration or *)
(* one block per step.                                                     *)
(*   pc      "group" (loop of line 1039), "stats" (loop of line 1053),     *)
(*           "metrics" (lines 1060-1090), "package" (lines 1092-1097),     *)
(*           "done" (returned), "raised" (an exception left the call)      *)
(*   row     rows consumed by the first loop                               *)
(*   grp     groups consumed by the second loop                            *)
(*   claimed the positions in grouped_samples of the groups consumed       *)
(*   reroll  the state of a call of reroll_and_score_dataset, NoReroll     *)
(*           when there is none                                            *)
(***************************************************************************)
InitWith(input) ==
    /\ dataset = input
    /\ pc = "group"
    /\ row = 0
    /\ grouped_samples = <<>>
    /\ grp = 0
    /\ claimed = {}
    /\ ref_stats = <<>>
    /\ tied_stats = <<>>
    /\ metrics = NoMetrics
    /\ returned = None
    /\ raised = NoError
    /\ reroll = NoReroll

Init == \E input \in Datasets : InitWith(input)

\* Lines 1039-1047, one sample; the loop ends when the rows are exhausted.
GroupStep ==
    /\ pc = "group"
    /\ IF row < Len(dataset.rows)
       THEN LET r == GroupSample(grouped_samples, dataset.rows[row + 1])
            IN /\ grouped_samples' = r.grouped
               /\ raised' = r.raised
               /\ row' = row + 1
               /\ pc' = IF r.raised # NoError THEN "raised" ELSE "group"
       ELSE /\ pc' = "stats"
            /\ UNCHANGED <<row, grouped_samples, raised>>
    /\ UNCHANGED reroll
    /\ UNCHANGED <<dataset, grp, claimed, ref_stats, tied_stats, metrics,
                   returned>>

\* Lines 1053-1058, one group; the loop ends when the groups are exhausted.
StatsStep ==
    /\ pc = "stats"
    /\ IF grp < Len(grouped_samples)
       THEN LET f == FileStats(ref_stats, tied_stats, grouped_samples[grp + 1])
            IN /\ raised' = f.raised
               /\ grp' = grp + 1
               /\ claimed' = claimed \cup {grp + 1}
               /\ ref_stats' = f.ref_stats
               /\ tied_stats' = f.tied_stats
               /\ pc' = IF f.raised # NoError THEN "raised" ELSE "stats"
       ELSE /\ pc' = "metrics"
            /\ UNCHANGED <<grp, claimed, ref_stats, tied_stats, raised>>
    /\ UNCHANGED reroll
    /\ UNCHANGED <<dataset, row, grouped_samples, metrics, returned>>

\* Lines 1060-1090.
MetricsStep ==
    /\ pc = "metrics"
    /\ LET m == GlobalMetrics(ref_stats, tied_stats)
       IN /\ metrics' = m.metrics
          /\ raised' = m.raised
          /\ pc' = IF m.raised # NoError THEN "raised" ELSE "package"
    /\ UNCHANGED reroll
    /\ UNCHANGED <<dataset, row, grouped_samples, grp, claimed, ref_stats,
                   tied_stats, returned>>

\* Lines 1092-1097: return results_dataset, float(overall_score).
PackageStep ==
    /\ pc = "package"
    /\ returned' = Some([results_dataset |-> ResultsDataset(dataset),
                         overall_score |-> metrics.overall_score])
    /\ pc' = "done"
    /\ UNCHANGED reroll
    /\ UNCHANGED <<dataset, row, grouped_samples, grp, claimed, ref_stats,
                   tied_stats, metrics, raised>>

Next == GroupStep \/ StatsStep \/ MetricsStep \/ PackageStep

Spec == Init /\ [][Next]_vars

\* One row per variant, the variants in any order.
InitVariants ==
    \E order \in VariantOrders :
      \E rows \in VariantRows(order) : InitWith(Dataset(rows))

SpecVariants == InitVariants /\ [][Next]_vars

(***************************************************************************)
(* process_single_model as a function of the dataset: the same steps, run  *)
(* to the end. The result is [raised, returned], returned being None when  *)
(* an exception left the call.                                             *)
(***************************************************************************)
RECURSIVE GroupAll(_, _)
\* Lines 1039-1047, the whole loop.
GroupAll(grouped, rows) ==
    IF rows = <<>> THEN [raised |-> NoError, grouped |-> grouped]
    ELSE LET r == GroupSample(grouped, Head(rows))
         IN IF r.raised # NoError THEN r ELSE GroupAll(r.grouped, Tail(rows))

RECURSIVE StatsAll(_, _, _)
\* Lines 1053-1058, the whole loop, in the insertion order of the groups.
StatsAll(refs, tieds, groups) ==
    IF groups = <<>>
    THEN [raised |-> NoError, ref_stats |-> refs, tied_stats |-> tieds]
    ELSE LET f == FileStats(refs, tieds, Head(groups))
         IN IF f.raised # NoError THEN f
            ELSE StatsAll(f.ref_stats, f.tied_stats, Tail(groups))

process_single_model(ds) ==
    LET g == GroupAll(<<>>, ds.rows)
    IN IF g.raised # NoError THEN [raised |-> g.raised, returned |-> None]
       ELSE LET st == StatsAll(<<>>, <<>>, g.grouped)
            IN IF st.raised # NoError
               THEN [raised |-> st.raised, returned |-> None]
               ELSE LET m == GlobalMetrics(st.ref_stats, st.tied_stats)
                    IN IF m.raised # NoError
                       THEN [raised |-> m.raised, returned |-> None]
                       ELSE [raised |-> NoError,
                             returned |->
                               Some([results_dataset |-> ResultsDataset(ds),
                                     overall_score |-> m.metrics.overall_score])]

(***************************************************************************)
(* What the claims speak of, stated from the data rather than by the       *)
(* operators above.                                                        *)
(***************************************************************************)
CorrectSet(samples) == {samples[j][2] : j \in {i \in DOMAIN samples : samples[i][1]}}
IncorrectSet(samples) == {samples[j][2] : j \in {i \in DOMAIN samples : ~samples[i][1]}}
NumCorrectEntries(samples) == Cardinality({i \in DOMAIN samples : samples[i][1]})

Least(S) == CHOOSE x \in S : \A y \in S : x <= y
Greatest(S) == CHOOSE x \in S : \A y \in S : x >= y

HasBothClasses(samples) == CorrectSet(samples) # {} /\ IncorrectSet(samples) # {}

\* The second loop has taken group k, and taking it raised / did not raise.
Taken(k) == k \in 1..grp
Failed(k) == pc = "raised" /\ raised.line \in {1010, 1012} /\ k = grp
Computed(k) == Taken(k) /\ ~Failed(k)

\* The stats filed for the key of group k.
Filed(k) ==
    LET key == grouped_samples[k].key
    IN IF key.sample_type = REF THEN ref_stats[key.prompt_id]
       ELSE tied_stats[key.prompt_id]

\* No later group is filed in the same slot as group k.
Survives(k) ==
    \A j \in (k + 1)..grp :
        Computed(j) =>
            \/ grouped_samples[j].key.prompt_id # grouped_samples[k].key.prompt_id
            \/ (grouped_samples[j].key.sample_type = REF)
                 # (grouped_samples[k].key.sample_type = REF)

\* C1: for every group with at least one correct and one incorrect pair,
\* _compute_prompt_stats returns correct_incorrect_margin = (least correct
\* score) - (greatest incorrect score), and accurate is true exactly when the
\* least correct score is strictly greater than the greatest incorrect score.
C1_MarginAndAccurate ==
    \A k \in DOMAIN grouped_samples :
        LET samples == grouped_samples[k].samples
        IN (Taken(k) /\ HasBothClasses(samples)) =>
              /\ ~Failed(k)
              /\ Survives(k) =>
                   /\ Filed(k).correct_incorrect_margin =
                        Least(CorrectSet(samples)) - Greatest(IncorrectSet(samples))
                   /\ Filed(k).accurate =
                        (Least(CorrectSet(samples)) > Greatest(IncorrectSet(samples)))

\* C1 witness: a computed group whose worst correct score ties with its best
\* incorrect score, filed as not accurate with margin 0.
C1_Witness ==
    \E k \in DOMAIN grouped_samples :
        LET samples == grouped_samples[k].samples
        IN /\ Computed(k) /\ HasBothClasses(samples)
           /\ Least(CorrectSet(samples)) = Greatest(IncorrectSet(samples))
           /\ Filed(k).accurate = FALSE
           /\ Filed(k).correct_incorrect_margin = 0

\* The correct entries that the rows of the dataset contribute to a key: the
\* positions below num_correct of every row with that key.
RowKey(sample) ==
    LET p == ParseId(sample.id)
    IN [sample_type |-> p.sample_type, prompt_id |-> p.prompt_id]

RECURSIVE CorrectInRows(_, _)
CorrectInRows(rows, key) ==
    IF rows = <<>> THEN 0
    ELSE (IF RowKey(Head(rows)) = key
          THEN Cardinality({i \in 0..(Len(Head(rows).scores) - 1) :
                               i < Head(rows).num_correct})
          ELSE 0) + CorrectInRows(Tail(rows), key)

\* C2: different_correct_margin is None (never 0.0) for a group with exactly
\* one correct entry and (greatest correct score) - (least correct score) for
\* a group with two or more, the correct entries being counted over all the
\* rows accumulated into the group.
C2_DifferentCorrectMargin ==
    \A k \in DOMAIN grouped_samples :
        LET samples == grouped_samples[k].samples
            n == CorrectInRows(dataset.rows, grouped_samples[k].key)
        IN (Computed(k) /\ Survives(k)) =>
              /\ n = 1 => /\ Filed(k).different_correct_margin = None
                          /\ Filed(k).different_correct_margin # Some(0)
              /\ n >= 2 => Filed(k).different_correct_margin =
                             Some(Greatest(CorrectSet(samples))
                                    - Least(CorrectSet(samples)))

\* C2 witness: two rows with one correct entry each are accumulated into one
\* group, whose margin is then defined; and a one-row group with one correct
\* entry has none.
C2_Witness ==
    /\ Len(dataset.rows) = 2
    /\ dataset.rows[1].num_correct = 1 /\ dataset.rows[2].num_correct = 1
    /\ Len(grouped_samples) = 1
    /\ Computed(1)
    /\ Filed(1).different_correct_margin = Some(1)

\* C3 as claimed: a tied group of a common prompt with exactly two correct
\* entries of identical scores gives margin_score 0.0, whatever the ref and
\* tied margins are.
C3_ZeroDivisionGivesZero ==
    pc \in {"package", "done"} =>
        \A k \in DOMAIN grouped_samples :
            LET g == grouped_samples[k]
            IN (/\ g.key.sample_type = TIED
                /\ g.key.prompt_id \in metrics.all_prompts
                /\ NumCorrectEntries(g.samples) = 2
                /\ Cardinality(CorrectSet(g.samples)) = 1)
               => metrics.margin_scores[g.key.prompt_id] = Float(0)


\* An id of the form "<type>:<integer>": exactly one colon, followed by an
\* optional sign and at least one digit.
IsTypeColonInteger(id) ==
    LET colons == {k \in DOMAIN id : id[k] = ":"}
    IN /\ Cardinality(colons) = 1
       /\ LET c == CHOOSE k \in colons : TRUE
              digits == IF c < Len(id) /\ id[c + 1] \in {"+", "-"}
                        THEN (c + 2)..Len(id) ELSE (c + 1)..Len(id)
          IN digits # {} /\ \A k \in digits : id[k] \in Digits

MalformedRows == {k \in DOMAIN dataset.rows : ~IsTypeColonInteger(dataset.rows[k].id)}

\* C6: when any sample's id is not of the form "<type>:<integer>", the call
\* fails and returns neither a dataset nor a score, however many well-formed
\* samples precede it: the loop never gets past the first such row, and
\* reaching it raises the id error (ValueError of line 1041 or 1042).
C6_MalformedIdFails ==
    MalformedRows # {} =>
        LET first == Least(MalformedRows)
        IN /\ returned = None
           /\ pc \in {"group", "raised"}
           /\ row <= first
           /\ pc = "group" => row < first /\ raised = NoError
           /\ (pc = "raised" /\ row = first) =>
                 /\ raised.type = "ValueError"
                 /\ raised.line \in {1041, 1042}

\* C6 witness: a well-formed first row has been grouped and the malformed id
\* of the second row has ended the call.
C6_Witness ==
    /\ MalformedRows = {2}
    /\ pc = "raised" /\ row = 2
    /\ raised = Error("ValueError", 1041)
    /\ grouped_samples # <<>>
    /\ returned = None

IsScalarOrSingleton(raw_score) == ~raw_score.list \/ Len(raw_score.items) = 1

\* C8 as claimed: a score entry that is neither a scalar nor a list of
\* exactly one scalar makes the call fail, so no call returns for a dataset
\* that holds one.
C8_OddShapeRejected ==
    pc = "done" =>
        \A k \in DOMAIN dataset.rows :
            \A i \in DOMAIN dataset.rows[k].scores :
                IsScalarOrSingleton(dataset.rows[k].scores[i])

\* The pairs a row contributes: (i < num_correct, score_i) for every index i,
\* score_i being the entry itself or the first element of a list entry.
RowPairs(sample) ==
    [j \in DOMAIN sample.scores |->
        <<(j - 1) < sample.num_correct, sample.scores[j].items[1]>>]

RECURSIVE PairsOfKey(_, _)
PairsOfKey(rows, key) ==
    IF rows = <<>> THEN <<>>
    ELSE (IF RowKey(Head(rows)) = key THEN RowPairs(Head(rows)) ELSE <<>>)
            \o PairsOfKey(Tail(rows), key)

\* C9: every score index i of every sample appends exactly one pair
\* (i < num_correct, score_i) to the group of the sample's (sample_type,
\* prompt_id); rows that share a key accumulate in one group, in row order,
\* with nothing overwritten or dropped.
C9_GroupsAccumulate ==
    pc # "raised" =>
        LET seen == SubSeq(dataset.rows, 1, row)
        IN /\ \A k \in DOMAIN grouped_samples :
                 grouped_samples[k].samples =
                     PairsOfKey(seen, grouped_samples[k].key)
           /\ \A j, k \in DOMAIN grouped_samples :
                 j # k => grouped_samples[j].key # grouped_samples[k].key
           /\ \A r \in DOMAIN seen :
                 seen[r].scores # <<>> =>
                    \E k \in DOMAIN grouped_samples :
                        grouped_samples[k].key = RowKey(seen[r])

\* C9 witness: two rows with the same key have been grouped into one group
\* that holds the pairs of both.
C9_Witness ==
    /\ pc = "stats" /\ row = 2
    /\ Len(grouped_samples) = 1
    /\ Len(grouped_samples[1].samples) = 5
    /\ grouped_samples[1].samples =
         RowPairs(dataset.rows[1]) \o RowPairs(dataset.rows[2])


Finished == pc \in {"package", "done"}

\* C4 as claimed: when no prompt id is in both ref_stats and tied_stats, the
\* two rates and the margin score are 0.0 and overall_score is
\* 0.30*tied_accuracy + 0.30*ref_accuracy, a number.
C4_NoCommonPromptsGiveZero ==
    (Finished /\ DOMAIN ref_stats \cap DOMAIN tied_stats = {}) =>
        /\ metrics.correctness_preferred = Float(0)
        /\ metrics.correctness_preferred_hard = Float(0)
        /\ metrics.correctness_margin_score = Float(0)
        /\ ~IsNaN(metrics.overall_score)
        /\ metrics.overall_score =
             FAdd(Rat(30 * metrics.tied_accuracy.n, 100 * metrics.tied_accuracy.d),
                  Rat(30 * metrics.ref_accuracy.n, 100 * metrics.ref_accuracy.d))

\* The rows of the dataset in every order.
RowOrders(rows) ==
    LET n == Len(rows)
    IN {[k \in 1..n |-> rows[f[k]]] :
          f \in {h \in [1..n -> 1..n] : \A i, j \in 1..n : i # j => h[i] # h[j]}}

\* C5 as claimed: the overall_score returned is the same for every
\* permutation of the input samples, whatever order that gives the groups in
\* grouped_samples, ref_stats and tied_stats.
C5_PermutationInvariant ==
    pc = "done" =>
        \A rows \in RowOrders(dataset.rows) :
            LET other == process_single_model(Dataset(rows))
            IN /\ other.returned # None
               /\ other.returned[1].overall_score = returned[1].overall_score

\* The groups filed under "ref", and those filed under tied (every other type).
RefGroups == {k \in DOMAIN grouped_samples : grouped_samples[k].key.sample_type = REF}
TiedGroups ==
    {k \in DOMAIN grouped_samples :
        grouped_samples[k].key.sample_type # REF /\ Survives(k)}

AccurateGroups(groups) ==
    {k \in groups :
        Least(CorrectSet(grouped_samples[k].samples))
            > Greatest(IncorrectSet(grouped_samples[k].samples))}

PromptIds(groups) == {grouped_samples[k].key.prompt_id : k \in groups}

\* The fraction of accurate groups as a float, 0.0 when there is no group.
AccurateFraction(groups) ==
    IF groups = {} THEN [k |-> "fin", n |-> 0, d |-> 1]
    ELSE LET a == Cardinality(AccurateGroups(groups))
             t == Cardinality(groups)
             g == CHOOSE x \in 1..t : /\ a % x = 0 /\ t % x = 0
                                      /\ \A y \in (x + 1)..t : a % y # 0 \/ t % y # 0
         IN [k |-> "fin", n |-> a \div g, d |-> t \div g]

\* C10: ref_accuracy is the mean of accurate over all ref groups and
\* tied_accuracy the mean over all groups filed as tied, each 0.0 when there
\* is no such group; a group whose prompt id is under one type only counts in
\* its accuracy term, and the margin terms range over the common prompt ids
\* alone.
C10_AccuracyOverAllGroups ==
    Finished =>
        /\ metrics.ref_accuracy = AccurateFraction(RefGroups)
        /\ metrics.tied_accuracy = AccurateFraction(TiedGroups)
        /\ metrics.all_prompts = PromptIds(RefGroups) \cap PromptIds(TiedGroups)
        /\ DOMAIN metrics.preferred = metrics.all_prompts
        /\ DOMAIN metrics.preferred_hard = metrics.all_prompts
        /\ DOMAIN metrics.margin_scores = metrics.all_prompts

\* C10 witness: prompt 0 has a ref and a tied group, prompt 1 a tied group
\* only; the accurate tied group of prompt 1 counts in tied_accuracy (1/2,
\* the tied group of prompt 0 not being accurate) and the margin terms are
\* those of prompt 0 alone.
C10_Witness ==
    /\ pc = "done"
    /\ PromptIds(RefGroups) = {0}
    /\ PromptIds(TiedGroups) = {0, 1}
    /\ tied_stats[1].accurate /\ ~tied_stats[0].accurate
    /\ metrics.tied_accuracy = Rat(1, 2)
    /\ DOMAIN metrics.margin_scores = {0}

(***************************************************************************)
(* Datasets over two prompts: any subset of the rows ref:0, tied:0, ref:1  *)
(* and tied:1 in that order, a ref row with one correct answer and a tied  *)
(* row with two, so that every group is valid and ref_stats and tied_stats *)
(* share zero, one or two prompt ids.                                      *)
(***************************************************************************)
PairOrder ==
    <<Id(REF, <<"0">>), Id(TIED, <<"0">>), Id(REF, <<"1">>), Id(TIED, <<"1">>)>>

PairSamples(id) ==
    IF SubSeq(id, 1, 3) = REF
    THEN {Sample(id, 1, sc) : sc \in ScalarScores({2})}
    ELSE {Sample(id, 2, sc) : sc \in ScalarScores({3})}

RECURSIVE PairRows(_)
\* The lists of rows that take, for each id of order, one row or none.
PairRows(order) ==
    IF order = <<>> THEN {<<>>}
    ELSE LET rest == PairRows(Tail(order))
         IN rest \cup {<<s>> \o r : s \in PairSamples(Head(order)), r \in rest}

InitPairs == \E rows \in PairRows(PairOrder) : InitWith(Dataset(rows))

SpecPairs == InitPairs /\ [][Next]_vars

\* The surviving group filed for a prompt id in ref_stats / in tied_stats.
RefGroupOf(pid) ==
    CHOOSE k \in RefGroups : grouped_samples[k].key.prompt_id = pid
TiedGroupOf(pid) ==
    CHOOSE k \in TiedGroups : grouped_samples[k].key.prompt_id = pid

\* The two margins of group k, from its pairs.
Cim(k) ==
    Least(CorrectSet(grouped_samples[k].samples))
        - Greatest(IncorrectSet(grouped_samples[k].samples))
Dcm(k) ==
    Greatest(CorrectSet(grouped_samples[k].samples))
        - Least(CorrectSet(grouped_samples[k].samples))

CommonPrompts == PromptIds(RefGroups) \cap PromptIds(TiedGroups)

\* The common prompts whose tied correct-incorrect margin exceeds the tied
\* different-correct margin, and those where the smaller of the ref and tied
\* correct-incorrect margins does.
PreferredPrompts ==
    {pid \in CommonPrompts : Cim(TiedGroupOf(pid)) > Dcm(TiedGroupOf(pid))}
PreferredHardPrompts ==
    {pid \in CommonPrompts :
        LET r == Cim(RefGroupOf(pid))
            t == Cim(TiedGroupOf(pid))
        IN (IF r < t THEN r ELSE t) > Dcm(TiedGroupOf(pid))}

\* x is the float count / total.
IsFraction(x, count, total) ==
    /\ x.k = "fin"
    /\ x.n * total = count * x.d

\* C11: for each common prompt p, correctness_preferred[p] is 1 exactly when
\* the tied correct_incorrect_margin is strictly greater than the tied
\* different_correct_margin, and correctness_preferred_hard[p] is 1 exactly
\* when min(ref correct_incorrect_margin, tied correct_incorrect_margin) is
\* strictly greater than it; the two rates are the means of these indicators
\* over the common prompts.
C11_PreferredIndicators ==
    (Finished /\ CommonPrompts # {}) =>
        /\ metrics.all_prompts = CommonPrompts
        /\ \A pid \in CommonPrompts :
             /\ metrics.preferred[pid] = (pid \in PreferredPrompts)
             /\ metrics.preferred_hard[pid] = (pid \in PreferredHardPrompts)
        /\ IsFraction(metrics.correctness_preferred,
                      Cardinality(PreferredPrompts),
                      Cardinality(CommonPrompts))
        /\ IsFraction(metrics.correctness_preferred_hard,
                      Cardinality(PreferredHardPrompts),
                      Cardinality(CommonPrompts))

\* C11 witness: two common prompts; prompt 0 is preferred but not hard (its
\* ref margin is not above the tied different-correct margin), prompt 1 has
\* equal tied margins and is neither; the rates are 1/2 and 0.
C11_Witness ==
    /\ pc = "done"
    /\ CommonPrompts = {0, 1}
    /\ metrics.preferred[0] /\ ~metrics.preferred_hard[0]
    /\ Cim(TiedGroupOf(1)) = Dcm(TiedGroupOf(1))
    /\ ~metrics.preferred[1]
    /\ metrics.correctness_preferred = Rat(1, 2)
    /\ metrics.correctness_preferred_hard = Float(0)

\* The five terms of the score.
Terms ==
    <<metrics.tied_accuracy, metrics.ref_accuracy,
      metrics.correctness_preferred, metrics.correctness_preferred_hard,
      metrics.correctness_margin_score>>

\* C12: overall_score = 0.30*tied_accuracy + 0.30*ref_accuracy
\* + 0.20*correctness_preferred + 0.20*correctness_preferred_hard
\* + 0.01*correctness_margin_score, with these fixed weights (30, 30, 20, 20
\* and 1 hundredths) and no other term. With every term a number the sum is
\* the fraction, in lowest terms, taken over the common denominator l of the
\* first four terms; a term that is nan makes the sum nan.
C12_WeightedSum ==
    Finished =>
        IF \A i \in DOMAIN Terms : Terms[i].k = "fin"
        THEN LET ta == metrics.tied_accuracy
                 ra == metrics.ref_accuracy
                 cp == metrics.correctness_preferred
                 ch == metrics.correctness_preferred_hard
                 ms == metrics.correctness_margin_score
                 l == ta.d * ra.d * cp.d * ch.d
                 a == 30 * ta.n * (l \div ta.d) + 30 * ra.n * (l \div ra.d)
                        + 20 * cp.n * (l \div cp.d) + 20 * ch.n * (l \div ch.d)
             IN metrics.overall_score
                  = Rat(a * ms.d + 1 * ms.n * l, 100 * l * ms.d)
        ELSE metrics.overall_score.k = "nan"

\* C12 witness: the five terms are numbers, none of them 0, the two accuracy
\* terms differ and the two rates differ.
C12_Witness ==
    /\ pc = "done"
    /\ \A i \in DOMAIN Terms : Terms[i].k = "fin" /\ Terms[i].n # 0
    /\ metrics.tied_accuracy # metrics.ref_accuracy
    /\ metrics.correctness_preferred # metrics.correctness_preferred_hard
    /\ returned[1].overall_score = metrics.overall_score

\* Every group has a correct and an incorrect entry, and every group filed as
\* tied has at least two correct entries.
ValidGroups ==
    \A k \in DOMAIN grouped_samples :
        /\ HasBothClasses(grouped_samples[k].samples)
        /\ grouped_samples[k].key.sample_type # REF =>
             NumCorrectEntries(grouped_samples[k].samples) >= 2

\* The score without its margin term: the four weighted terms, summed over
\* their common denominator.
WithoutMargin ==
    LET ta == metrics.tied_accuracy
        ra == metrics.ref_accuracy
        cp == metrics.correctness_preferred
        ch == metrics.correctness_preferred_hard
        l == ta.d * ra.d * cp.d * ch.d
    IN Rat(30 * ta.n * (l \div ta.d) + 30 * ra.n * (l \div ra.d)
             + 20 * cp.n * (l \div cp.d) + 20 * ch.n * (l \div ch.d),
           100 * l)

\* The change the margin term makes: overall_score - WithoutMargin.
MarginPart ==
    FAdd(metrics.overall_score, Rat(-WithoutMargin.n, WithoutMargin.d))

\* lo/1000 <= x <= hi/1000 for a float x that is a number.
Within(x, lo, hi) ==
    /\ x.k = "fin"
    /\ lo * x.d <= 1000 * x.n
    /\ 1000 * x.n <= hi * x.d

ColumnSamples ==
    {Sample(Id(REF, <<"0">>), 1, <<Scalar(1), Scalar(0)>>),
     Sample(Id(TIED, <<"0">>), 2, <<Scalar(1), Scalar(1), Scalar(0)>>),
     Sample(Id(TIED, <<"0">>), 1, <<Scalar(1), Scalar(0)>>)}

ResultsValues == {None, Some(0), Some(1)}

WithResults(rows) ==
    {[k \in DOMAIN rows |-> [rows[k] EXCEPT !.results = f[k]]] :
        f \in [DOMAIN rows -> ResultsValues]}

InitColumns ==
    \E rows \in SeqsUpTo(ColumnSamples, MaxRows) :
        \/ InitWith(Dataset(rows))
        \/ \E filled \in WithResults(rows) :
               InitWith([column_names |-> BaseColumns \cup {"results"},
                         rows |-> filled])

SpecColumns == InitColumns /\ [][Next]_vars

\* C14: on success the dataset returned has as many rows as the input, its
\* "results" column exists and is None in every row whether or not the input
\* had a "results" column, and every other column keeps its input values.
C14_ResultsColumnNone ==
    pc = "done" =>
        LET out == returned[1].results_dataset
        IN /\ Len(out.rows) = Len(dataset.rows)
           /\ "results" \in out.column_names
           /\ out.column_names \ {"results"} = dataset.column_names \ {"results"}
           /\ \A k \in DOMAIN out.rows :
                /\ out.rows[k].results = <<>>
                /\ out.rows[k].id = dataset.rows[k].id
                /\ out.rows[k].num_correct = dataset.rows[k].num_correct
                /\ out.rows[k].scores = dataset.rows[k].scores

\* C14 witness: a successful run on two rows whose "results" column held a
\* value in one row and None in the other.
C14_Witness ==
    /\ pc = "done"
    /\ "results" \in dataset.column_names
    /\ Len(dataset.rows) = 2
    /\ dataset.rows[1].results = <<1>>
    /\ dataset.rows[2].results = <<>>
    /\ returned[1].results_dataset.rows[1].results = <<>>

\* The groups filed as tied that hold exactly one correct entry and whose
\* prompt id also has a ref group: for these the tied different_correct_margin
\* of a common prompt is undefined.
UndefinedMarginGroups ==
    {k \in TiedGroups :
        /\ NumCorrectEntries(grouped_samples[k].samples) = 1
        /\ IncorrectSet(grouped_samples[k].samples) # {}
        /\ grouped_samples[k].key.prompt_id \in PromptIds(RefGroups)}

\* C15: when a common prompt's tied group has exactly one correct entry (its
\* different_correct_margin is None) the call raises an error and returns no
\* score: it never finishes, no metric is computed with the margin taken as
\* 0, and once the two loops are through the call has raised.
C15_UndefinedMarginRaises ==
    (row = Len(dataset.rows) /\ UndefinedMarginGroups # {}) =>
        /\ ~Finished
        /\ returned = None
        /\ metrics = NoMetrics
        /\ pc \notin {"group", "stats", "metrics"} =>
             (pc = "raised" /\ raised # NoError)

\* C15 witness: ref:0 and a tied:0 group with one correct entry, both with an
\* incorrect entry; the comparison of line 1073 has raised.
C15_Witness ==
    /\ pc = "raised"
    /\ raised = Error("TypeError", 1073)
    /\ UndefinedMarginGroups # {}
    /\ tied_stats[0].different_correct_margin = None
    /\ 0 \in DOMAIN ref_stats
    /\ returned = None

(***************************************************************************)
(* Datasets of one ref row with three scores and one tied row with four,   *)
(* the scores drawn from those of the documented example.                  *)
(***************************************************************************)
ExampleValues == {1, 2, 4, 5}

ExampleRows ==
    {<<Sample(Id(REF, <<"0">>), 1, [k \in 1..3 |-> Scalar(f[k])]),
       Sample(Id(TIED, <<"0">>), 2, [k \in 1..4 |-> Scalar(g[k])])>> :
        f \in [1..3 -> ExampleValues \ {4}], g \in [1..4 -> ExampleValues]}

InitExample == \E rows \in ExampleRows : InitWith(Dataset(rows))

SpecExample == InitExample /\ [][Next]_vars

\* The documented example: ref:0 with scores [5, 2, 1] and one correct
\* answer, tied:0 with scores [5, 4, 2, 1] and two.
Example ==
    Dataset(<<Sample(Id(REF, <<"0">>), 1, <<Scalar(5), Scalar(2), Scalar(1)>>),
              Sample(Id(TIED, <<"0">>), 2,
                     <<Scalar(5), Scalar(4), Scalar(2), Scalar(1)>>)>>)

\* C16: on the example the ref group is accurate with correct_incorrect_margin
\* 3; the tied group is accurate with different_correct_margin 1 and
\* correct_incorrect_margin 2; both accuracies are 1, correctness_preferred
\* and correctness_preferred_hard are 1, the margin score is tanh(min(3, 2)/1
\* - 1) = tanh(1) (0.7616 to four places), and the overall_score is
\* 1.0 + 0.01 * tanh(1).
C16_Example ==
    (dataset = Example /\ Finished) =>
        /\ ref_stats[0].accurate
        /\ ref_stats[0].correct_incorrect_margin = 3
        /\ tied_stats[0].accurate
        /\ tied_stats[0].different_correct_margin = <<1>>
        /\ tied_stats[0].correct_incorrect_margin = 2
        /\ metrics.ref_accuracy = [k |-> "fin", n |-> 1, d |-> 1]
        /\ metrics.tied_accuracy = [k |-> "fin", n |-> 1, d |-> 1]
        /\ metrics.preferred = (0 :> TRUE)
        /\ metrics.preferred_hard = (0 :> TRUE)
        /\ metrics.correctness_preferred = [k |-> "fin", n |-> 1, d |-> 1]
        /\ metrics.correctness_preferred_hard = [k |-> "fin", n |-> 1, d |-> 1]
        /\ metrics.margin_scores[0].k = "fin"
        /\ metrics.margin_scores[0].n * 10000 = 7616 * metrics.margin_scores[0].d
        /\ metrics.overall_score = Rat(1000000 + 7616, 1000000)
        /\ pc = "done" => returned[1].overall_score = metrics.overall_score

\* C16 witness: the call has returned on the example.
C16_Witness ==
    /\ pc = "done"
    /\ dataset = Example
    /\ returned # None
    /\ returned[1].overall_score = Rat(1000000 + 7616, 1000000)

(***************************************************************************)
(* Datasets of a ref:0 row with two entries and a tied:0 row with three,   *)
(* each entry a scalar, a one-element list or the empty list.              *)
(***************************************************************************)
WrappedEntries ==
    {Scalar(0), Scalar(1), List(<<0>>), List(<<1>>), List(<<>>)}

WrappedRows ==
    {<<Sample(Id(REF, <<"0">>), 1, f), Sample(Id(TIED, <<"0">>), 2, g)>> :
        f \in [1..2 -> WrappedEntries], g \in [1..3 -> WrappedEntries]}

InitWrapped == \E rows \in WrappedRows : InitWith(Dataset(rows))

SpecWrapped == InitWrapped /\ [][Next]_vars

\* A scalar s as the list [s], a list [s] as the scalar s, any other entry as
\* it is.
Rewrap(raw_score) ==
    IF ~raw_score.list THEN [list |-> TRUE, items |-> raw_score.items]
    ELSE IF Len(raw_score.items) = 1
         THEN [list |-> FALSE, items |-> raw_score.items]
         ELSE raw_score

\* The lists of rows that differ from rows in that some scalar entries are
\* wrapped into one-element lists and some one-element lists unwrapped.
Rewrapped(rows) ==
    LET positions ==
            UNION {{<<k, i>> : i \in DOMAIN rows[k].scores} : k \in DOMAIN rows}
    IN {[k \in DOMAIN rows |->
           [rows[k] EXCEPT !.scores =
               [i \in DOMAIN rows[k].scores |->
                   IF <<k, i>> \in chosen THEN Rewrap(rows[k].scores[i])
                   ELSE rows[k].scores[i]]]] :
          chosen \in SUBSET positions}

\* C17: a score entry that is the one-element list [s] is treated exactly
\* like the scalar s: replacing scalars by such lists or the reverse, in any
\* entries, leaves the groups, every group's statistics and the overall_score
\* (or the exception raised) unchanged.
C17_SingletonLikeScalar ==
    pc \in {"done", "raised"} =>
        \A rows \in Rewrapped(dataset.rows) :
            LET other == process_single_model(Dataset(rows))
                g == GroupAll(<<>>, rows)
                st == StatsAll(<<>>, <<>>, g.grouped)
            IN /\ other.raised = raised
               /\ (other.returned = None) = (returned = None)
               /\ returned # None =>
                    other.returned[1].overall_score = returned[1].overall_score
               /\ g.raised = NoError =>
                    /\ g.grouped = grouped_samples
                    /\ st.raised = NoError =>
                         /\ st.ref_stats = ref_stats
                         /\ st.tied_stats = tied_stats

\* C17 witness: a run that returned a number, on a ref row that holds a
\* one-element list and a scalar and a tied row that holds two one-element
\* lists and a scalar.
C17_Witness ==
    /\ pc = "done"
    /\ returned[1].overall_score.k = "fin"
    /\ dataset.rows[1].scores = <<List(<<1>>), Scalar(0)>>
    /\ dataset.rows[2].scores = <<List(<<1>>), Scalar(1), List(<<0>>)>>
    /\ ref_stats[0].accurate /\ tied_stats[0].accurate

(***************************************************************************)
(* The second loop with its iterations handed to workers: the body of      *)
(* lines 1054-1058 runs once per group, the groups taken in any order.     *)
(* Each step is one worker taking a group, computing its stats and filing  *)
(* them; the steps of different workers interleave freely.                 *)
(***************************************************************************)
ParStatsStep ==
    /\ pc = "stats"
    /\ IF claimed # DOMAIN grouped_samples
       THEN \E k \in DOMAIN grouped_samples \ claimed :
              LET f == FileStats(ref_stats, tied_stats, grouped_samples[k])
              IN /\ raised' = f.raised
                 /\ grp' = grp + 1
                 /\ claimed' = claimed \cup {k}
                 /\ ref_stats' = f.ref_stats
                 /\ tied_stats' = f.tied_stats
                 /\ pc' = IF f.raised # NoError THEN "raised" ELSE "stats"
       ELSE /\ pc' = "metrics"
            /\ UNCHANGED <<grp, claimed, ref_stats, tied_stats, raised>>
    /\ UNCHANGED reroll
    /\ UNCHANGED <<dataset, row, grouped_samples, metrics, returned>>

NextParallel == GroupStep \/ ParStatsStep \/ MetricsStep \/ PackageStep

\* One row per id of a subset of ref:0, gold:0 and tied:0, in any order: the
\* groups of gold:0 and tied:0 share a prompt id under two types that are not
\* "ref".
CollidingIds == {Id(REF, <<"0">>), Id(GOLD, <<"0">>), Id(TIED, <<"0">>)}

CollidingOrders ==
    {r \in SeqsUpTo(CollidingIds, Cardinality(CollidingIds)) :
        \A j, k \in DOMAIN r : j # k => r[j] # r[k]}

InitColliding ==
    \E order \in CollidingOrders :
      \E rows \in VariantRows(order) : InitWith(Dataset(rows))

SpecColliding == InitColliding /\ [][Next]_vars

SpecParallel == InitColliding /\ [][NextParallel]_vars

LeastMargin(pid) ==
    LET r == Cim(RefGroupOf(pid))
        t == Cim(TiedGroupOf(pid))
    IN IF r < t THEN r ELSE t

NonRefTaken ==
    {k \in 1..grp : Computed(k) /\ grouped_samples[k].key.sample_type # REF}
LastNonRef(pid) ==
    Greatest({k \in NonRefTaken : grouped_samples[k].key.prompt_id = pid})

\* The smaller of the ref margin and the surviving non-"ref" margin of a
\* common prompt.
LeastMarginOf(pid) ==
    LET r == Cim(RefGroupOf(pid))
        t == Cim(LastNonRef(pid))
    IN IF r < t THEN r ELSE t

\* C20: every group whose sample_type is not exactly "ref" is filed in
\* tied_stats under its prompt_id alone; of two groups with different
\* non-"ref" types and the same prompt_id the one iterated later overwrites
\* the earlier, and only that survivor counts in tied_accuracy and in the
\* margin terms.
C20_NonRefTypesCollide ==
    /\ DOMAIN tied_stats = {grouped_samples[k].key.prompt_id : k \in NonRefTaken}
    /\ \A pid \in DOMAIN tied_stats :
         /\ tied_stats[pid].correct_incorrect_margin = Cim(LastNonRef(pid))
         /\ tied_stats[pid].different_correct_margin = <<Dcm(LastNonRef(pid))>>
         /\ tied_stats[pid].accurate = (Cim(LastNonRef(pid)) > 0)
    /\ Finished =>
         /\ IsFraction(metrics.tied_accuracy,
                       Cardinality({pid \in DOMAIN tied_stats :
                                       Cim(LastNonRef(pid)) > 0}),
                       Cardinality(DOMAIN tied_stats))
              \/ (DOMAIN tied_stats = {} /\ metrics.tied_accuracy = Float(0))
         /\ \A pid \in metrics.all_prompts :
              /\ metrics.preferred[pid]
                   = (Cim(LastNonRef(pid)) > Dcm(LastNonRef(pid)))
              /\ Dcm(LastNonRef(pid)) > 0 =>
                   metrics.margin_scores[pid]
                     = tanh(Rat(LeastMarginOf(pid) - Dcm(LastNonRef(pid)),
                                Dcm(LastNonRef(pid))))

\* C20 witness: an accurate gold:0 group, then a tied:0 group that is not
\* accurate, and a ref:0 group; tied_stats has the one entry of tied:0,
\* tied_accuracy is 0.0 and the indicator of prompt 0 is that of tied:0.
C20_Witness ==
    /\ pc = "done"
    /\ \E g, t \in NonRefTaken :
         /\ g < t
         /\ grouped_samples[g].key = [sample_type |-> GOLD, prompt_id |-> 0]
         /\ grouped_samples[t].key = [sample_type |-> TIED, prompt_id |-> 0]
         /\ Cim(g) > 0 /\ Cim(g) > Dcm(g)
         /\ Cim(t) <= 0
    /\ DOMAIN tied_stats = {0}
    /\ ~tied_stats[0].accurate
    /\ metrics.tied_accuracy = Float(0)
    /\ metrics.all_prompts = {0}
    /\ ~metrics.preferred[0]

\* x <= y as Python compares floats: every comparison with nan is false.
FLessEq(x, y) ==
    /\ x.k = "fin"
    /\ y.k = "fin"
    /\ x.n * y.d <= y.n * x.d

\* C21 as claimed: for every common prompt correctness_preferred_hard = 1
\* implies correctness_preferred = 1, and in every run that returns a score
\* the correctness_preferred_hard rate is <= the correctness_preferred rate.
C21_HardImpliesPreferred ==
    Finished =>
        /\ \A pid \in metrics.all_prompts :
             metrics.preferred_hard[pid] => metrics.preferred[pid]
        /\ pc = "done" =>
             FLessEq(metrics.correctness_preferred_hard,
                     metrics.correctness_preferred)

(***************************************************************************)
(* reroll_and_score_dataset as a state machine: the check of line 540, one *)
(* iteration of the loop of line 549 per step, the return.                 *)
(***************************************************************************)
MaxDfRows == 3

DfValues == {0, 1}

\* The frames of n rows without a "results" column: row i has the text i (a
\* text of its own), a score and an id.
PlainFrames(n) ==
    {[column_names |-> {"text", "scores", "id"},
      rows |-> [i \in 1..n |-> [text |-> i, scores |-> f[i], id |-> g[i],
                                results |-> None]]] :
        f \in [1..n -> DfValues], g \in [1..n -> DfValues]}

\* The same frames with a "results" column that holds 0 or 1 in each row.
ResultsFrames(n) ==
    {[column_names |-> p.column_names \cup {"results"},
      rows |-> [i \in 1..n |-> [p.rows[i] EXCEPT !.results = Some(r[i])]]] :
        p \in PlainFrames(n), r \in [1..n -> DfValues]}

\* Lists of group sizes, a size 0 among them; their sum is the number of
\* rows, or less, or more.
Completions ==
    {tc \in SeqsUpTo(0..MaxDfRows, MaxDfRows) : sum(tc) <= MaxDfRows + 1}

RerollStart(df, total_completions) ==
    [pc |-> "validate", df |-> df, total_completions |-> total_completions,
     done_groups |-> 0, current_idx |-> 0, rerolled_rows |-> <<>>,
     returned |-> None, raised |-> NoError]

InitReroll ==
    /\ dataset = Dataset(<<>>)
    /\ pc = "none"
    /\ row = 0
    /\ grouped_samples = <<>>
    /\ grp = 0
    /\ claimed = {}
    /\ ref_stats = <<>>
    /\ tied_stats = <<>>
    /\ metrics = NoMetrics
    /\ returned = None
    /\ raised = NoError
    /\ \E n \in 0..MaxDfRows :
         \E df \in PlainFrames(n) \cup ResultsFrames(n) :
           \E total_completions \in Completions :
             reroll = RerollStart(df, total_completions)

\* Lines 540-546.
RerollValidate ==
    /\ reroll.pc = "validate"
    /\ reroll' =
         IF sum(reroll.total_completions) # Len(reroll.df.rows)
         THEN [reroll EXCEPT !.pc = "raised",
                             !.raised = Error("ValueError", 541)]
         ELSE [reroll EXCEPT !.pc = "loop"]
    /\ UNCHANGED <<dataset, pc, row, grouped_samples, grp, claimed, ref_stats,
                   tied_stats, metrics, returned, raised>>

\* Lines 549-574, one group; the loop ends when the sizes are exhausted.
RerollGroupStep ==
    /\ reroll.pc = "loop"
    /\ reroll' =
         IF reroll.done_groups < Len(reroll.total_completions)
         THEN LET group_size == reroll.total_completions[reroll.done_groups + 1]
                  r == RerollRow(reroll.df, reroll.current_idx, group_size)
              IN IF r.raised # NoError
                 THEN [reroll EXCEPT !.pc = "raised", !.raised = r.raised,
                                     !.done_groups = @ + 1]
                 ELSE [reroll EXCEPT
                         !.rerolled_rows = Append(@, r.new_row),
                         !.current_idx = @ + group_size,
                         !.done_groups = @ + 1]
         ELSE [reroll EXCEPT !.pc = "build"]
    /\ UNCHANGED <<dataset, pc, row, grouped_samples, grp, claimed, ref_stats,
                   tied_stats, metrics, returned, raised>>

\* Lines 576-579.
RerollReturn ==
    /\ reroll.pc = "build"
    /\ reroll' =
         [reroll EXCEPT
            !.pc = "done",
            !.returned = Some(RerolledDataset(reroll.df, reroll.rerolled_rows))]
    /\ UNCHANGED <<dataset, pc, row, grouped_samples, grp, claimed, ref_stats,
                   tied_stats, metrics, returned, raised>>

NextReroll == RerollValidate \/ RerollGroupStep \/ RerollReturn

SpecReroll == InitReroll /\ [][NextReroll]_vars

\* The rows before group j, and the positions in df of the rows of group j,
\* when the groups are laid out one after another in the order of
\* total_completions.
RowsBefore(j) == sum(SubSeq(reroll.total_completions, 1, j - 1))
GroupPositions(j) ==
    {RowsBefore(j) + k : k \in 1..reroll.total_completions[j]}

\* Some column outside cols_to_combine takes two values within group j.
Conflict(j) ==
    \E a, b \in GroupPositions(j) :
        \/ reroll.df.rows[a].id # reroll.df.rows[b].id
        \/ /\ "results" \in reroll.df.column_names
           /\ reroll.df.rows[a].results # reroll.df.rows[b].results

SizesMatch == sum(reroll.total_completions) = Len(reroll.df.rows)

\* C22: when the sum of total_completions differs from the number of rows
\* the call raises and produces no dataset. Otherwise the j-th row built
\* combines the rows of df at the positions of group j, the groups being
\* consecutive and disjoint in the order of total_completions; a call that
\* returns returns one row per group; and a call with a group in which a
\* column outside cols_to_combine takes more than one value raises.
C22_RerollGroups ==
    reroll.pc # "none" =>
        /\ ~SizesMatch =>
             /\ reroll.pc \in {"validate", "raised"}
             /\ reroll.pc = "raised" => reroll.raised = Error("ValueError", 541)
             /\ reroll.rerolled_rows = <<>>
             /\ reroll.returned = None
        /\ SizesMatch =>
             /\ \A j \in DOMAIN reroll.rerolled_rows :
                  /\ Len(reroll.rerolled_rows[j].text)
                       = reroll.total_completions[j]
                  /\ Len(reroll.rerolled_rows[j].scores)
                       = reroll.total_completions[j]
                  /\ \A k \in 1..reroll.total_completions[j] :
                       /\ reroll.rerolled_rows[j].text[k] = RowsBefore(j) + k
                       /\ reroll.rerolled_rows[j].scores[k]
                            = reroll.df.rows[RowsBefore(j) + k].scores
             /\ reroll.pc = "done" =>
                  /\ reroll.returned # None
                  /\ Len(reroll.returned[1].rows)
                       = Len(reroll.total_completions)
             /\ (\E j \in DOMAIN reroll.total_completions : Conflict(j)) =>
                  /\ reroll.returned = None
                  /\ reroll.pc \in {"validate", "loop", "raised"}
                  /\ reroll.pc = "raised" => reroll.raised # NoError

\* C22 witness: three rows in groups of 1 and 2; the first group is built,
\* the second holds two ids and the call has raised at line 571.
C22_Witness ==
    /\ reroll.pc = "raised"
    /\ reroll.total_completions = <<1, 2>>
    /\ SizesMatch
    /\ Len(reroll.rerolled_rows) = 1
    /\ ~Conflict(1) /\ Conflict(2)
    /\ reroll.raised = Error("ValueError", 571)
    /\ reroll.returned = None

\* The number of scores of a list equal to its greatest.
CountOfGreatest(scores) ==
    Cardinality({i \in DOMAIN scores :
                    scores[i] = Greatest({scores[k] : k \in DOMAIN scores})})

FirstIsGreatest(scores) ==
    \A k \in DOMAIN scores : scores[k] <= scores[1]

\* C23 as claimed: for each group built, results is 1/k when the group's
\* first score equals the group's maximum, k being the number of scores equal
\* to that maximum, and 0 otherwise; so results is in [0, 1] and is 1 only
\* when the first score is the strict maximum.
C23_TieResult ==
    reroll.pc # "none" =>
        \A j \in DOMAIN reroll.rerolled_rows :
            LET scores == reroll.rerolled_rows[j].scores
                results == reroll.rerolled_rows[j].results
            IN /\ results.k = "fin"
               /\ FirstIsGreatest(scores) =>
                    /\ results.n = 1
                    /\ results.d = CountOfGreatest(scores)
               /\ ~FirstIsGreatest(scores) => results.n = 0
               /\ 0 <= results.n /\ results.n <= results.d
               /\ results.n = results.d =>
                    \A k \in DOMAIN scores : k # 1 => scores[k] < scores[1]

====
